---- MODULE Spec2Model ----
(***************************************************************************)
(* Point-process simulators of point-process-rust:                         *)
(*   poisson_process, variable_poisson  (timedependent.rs and temporal.rs) *)
(*   hawkes_exponential with a constant jump alpha   (temporal.rs)         *)
(*   hawkes_exponential with a jumps iterator        (timedependent.rs)    *)
(*                                                                         *)
(* Numbers.  A time of the two Hawkes simulators is a whole number of time *)
(* units or +inf; whole units add and subtract exactly in f64.  A wait     *)
(* -1.0/rate*u.ln() is drawn among the values the expression takes in f64  *)
(* for a draw u of rng.gen::<f64>(), a multiple of 2^-53 in [0,1): +inf    *)
(* for u = 0.0 (and for every u at rate 0.0); the whole numbers of units   *)
(* WholeWaits tabulates for the rate; and LeastWait, its least positive    *)
(* value, drawn with u = 1 - 2^-53 and at most 2^-53 when rate >= 1.0.     *)
(* An intensity of the Hawkes simulators is milli/1000 + ulps*2^-53, or    *)
(* NaN.  Sums and differences of intensities are rounded as f64 rounds     *)
(* them (to the nearest representable value, ties to even).  The product   *)
(* with a decay factor strictly between 0 and 1 is kept to the nearest     *)
(* thousandth: the intensity is then no longer exact, and only the waits   *)
(* that do not depend on the exact rate (+inf) are drawn at it.            *)
(* A uniform draw d in [0,1) of the tests is a fraction k/UDen with k in   *)
(* 0..UDen-1; the timestamps and intensities of the two Poisson simulators *)
(* are kept multiplied by UDen so that tmax*u and max_lambda*u stay        *)
(* integers.                                                               *)
(***************************************************************************)
EXTENDS Integers, Sequences, FiniteSets

VARIABLES
    call,        \* which function is called
    impl,        \* which source file's implementation
    tmax, lambda, rate_fn, max_lambda,      \* arguments
    decay, beta, lambda0, alpha, jumps,     \* arguments
    pc,          \* position in the called function
    num_events,  \* the Poisson-distributed number of candidates
    slots,       \* poisson / variable_poisson: outcome of each parallel task
    result,      \* the returned sequence; temporal.rs hawkes_exponential:
                 \* the first MaxRows rows of the Vec being built
    s, cur_lambda, lbda_max,                \* temporal.rs hawkes_exponential
    t, last_lambda,                         \* timedependent.rs hawkes_exponential
    taken,       \* number of elements the jumps iterator has yielded
    draws,       \* poisson / variable_poisson: random draws consumed so far
    error        \* the panic that ended the call, "none" otherwise

vars == << call, impl, tmax, lambda, rate_fn, max_lambda, decay, beta, lambda0,
           alpha, jumps, pc, num_events, slots, result, s, cur_lambda,
           lbda_max, t, last_lambda, taken, draws, error >>

args == << call, impl, tmax, lambda, rate_fn, max_lambda, decay, beta, lambda0,
           alpha, jumps >>

----------------------------------------------------------------------------
(* Bounds of the model *)

MaxTime == 3      \* tmax ranges over 0..MaxTime (whole time units)
MaxWait == 2      \* a drawn waiting time is up to MaxWait whole time units
MaxCount == 2     \* a Poisson sample ranges over 0..MaxCount
MaxJumps == 3     \* the jumps iterator yields at most MaxJumps values
MaxLambda == 2    \* lambda0, alpha: whole values 0..MaxLambda
MaxDecay == 2     \* decay, beta: 0..MaxDecay
UDen == 2         \* resolution of a uniform draw: k/UDen, k in 0..UDen-1
MaxRows == 4      \* rows of the thinned simulator's Vec that result records
MaxLevel == 5     \* LeastWait is drawn while lbda_max + alpha <= MaxLevel

----------------------------------------------------------------------------
(* f64 times *)

\* the f64 time units + leasts * LeastWait, leasts in 0..1
Time(units, leasts) == [ units |-> units, leasts |-> leasts ]

\* a whole number of time units
At(units) == Time(units, 0)

\* the least positive wait, -1.0/rate*ln(1 - 2^-53)
LeastWait == Time(0, 1)

\* +inf, the value of -1.0/0.0*ln(u) and of ln(0.0) divided by a rate
Infinity == Time(-1, 0)

IsFinite(a) == a # Infinity

\* a < b on times
Lt(a, b) ==
    /\ IsFinite(a)
    /\ \/ ~IsFinite(b)
       \/ a.units < b.units
       \/ a.units = b.units /\ a.leasts < b.leasts

\* the f64 nearest to units + leasts * LeastWait: from 1.0 on the spacing of
\* the f64 values is at least 2^-52, and a LeastWait of at most 2^-53 is lost
Round(units, leasts) == IF units > 0 THEN At(units) ELSE Time(0, leasts)

\* a + b on times
Plus(a, b) ==
    IF IsFinite(a) /\ IsFinite(b)
    THEN Round(a.units + b.units, a.leasts + b.leasts)
    ELSE Infinity

\* a - b on times, b finite and b <= a
Minus(a, b) ==
    IF IsFinite(a)
    THEN Round(a.units - b.units, a.leasts - b.leasts)
    ELSE Infinity

\* f64::min on times
Min(a, b) == IF Lt(a, b) THEN a ELSE b

----------------------------------------------------------------------------
(* f64 intensities *)

\* the f64 intensity milli/1000 + ulps * 2^-53
Intensity(milli, ulps) == [ milli |-> milli, ulps |-> ulps, exact |-> TRUE ]

\* an f64 intensity known to the nearest thousandth only, near milli/1000
Approx(milli) == [ milli |-> milli, ulps |-> 0, exact |-> FALSE ]

\* a whole intensity
Whole(n) == Intensity(1000 * n, 0)

\* f64 NaN as an intensity
NaN == Intensity(-1, 0)

IsNaN(x) == x = NaN

\* a < b on intensities
LtI(a, b) ==
    /\ ~IsNaN(a) /\ ~IsNaN(b)
    /\ \/ a.milli < b.milli
       \/ a.milli = b.milli /\ a.ulps < b.ulps

\* a <= b on intensities
LeI(a, b) == ~IsNaN(a) /\ ~IsNaN(b) /\ ~LtI(b, a)

\* a >= n on intensities, n a natural
AtLeast(a, n) == LeI(Whole(n), a)

\* spacing, in units of 2^-53, of the f64 values next to
\* milli/1000 + ulps * 2^-53: 2^-52 in [1,2), 2^-51 in [2,4), ...; below 1.0
\* every multiple of 2^-53 is an f64 value
Spacing(milli, ulps) ==
    LET above(m) == milli > m \/ (milli = m /\ ulps >= 0)
    IN  IF above(8000) THEN 16
        ELSE IF above(4000) THEN 8
        ELSE IF above(2000) THEN 4
        ELSE IF above(1000) THEN 2
        ELSE 1

\* the f64 nearest to milli/1000 + ulps * 2^-53, ties to the even mantissa
RoundI(milli, ulps) ==
    LET sp == Spacing(milli, ulps)
        q == ulps \div sp
        r == ulps % sp
    IN  Intensity(milli,
                  IF 2 * r < sp \/ (2 * r = sp /\ q % 2 = 0)
                  THEN sp * q ELSE sp * (q + 1))

\* a + b on intensities
AddI(a, b) ==
    IF IsNaN(a) \/ IsNaN(b) THEN NaN
    ELSE IF a.exact /\ b.exact THEN RoundI(a.milli + b.milli, a.ulps + b.ulps)
    ELSE Approx(a.milli + b.milli)

\* a - b on intensities
SubI(a, b) ==
    IF IsNaN(a) \/ IsNaN(b) THEN NaN
    ELSE IF a.exact /\ b.exact THEN RoundI(a.milli - b.milli, a.ulps - b.ulps)
    ELSE Approx(a.milli - b.milli)

\* f64 NaN as an exponent, the value of 0.0*inf
NaNExponent == -2

\* +inf as an exponent, the value of rate*inf at a positive rate
InfExponent == -1

\* exp(-x) in hundred-thousandths, x a natural
ExpNeg(x) ==
    CASE x = 0 -> 100000
      [] x = 1 -> 36788
      [] x = 2 -> 13534
      [] x = 3 -> 4979
      [] x = 4 -> 1832
      [] x = 5 -> 674
      [] x = 6 -> 248
      [] x = 7 -> 91
      [] x = 8 -> 34
      [] x = 9 -> 12
      [] x = 10 -> 5
      [] x = 11 -> 2
      [] x = 12 -> 1
      [] OTHER -> 0

\* rate*dt, the exponent of the decay; that of a LeastWait is at most 2^-54
\* where the wait is drawn, and its exp is 1.0 as that of 0 is; 0*inf is NaN
Times(rate, dt) ==
    IF IsFinite(dt) THEN rate * dt.units
    ELSE IF rate = 0 THEN NaNExponent ELSE InfExponent

\* x*f/100000 for a decay factor f/100000 strictly between 0 and 1, to the
\* nearest thousandth; 0.0 times the factor is 0.0
Scaled(x, f) ==
    IF x = Whole(0) THEN Whole(0)
    ELSE Approx((x.milli * f + 50000) \div 100000)

\* base + (lam - base)*exp(-rate*dt), the intensity decayed over dt:
\* exp(-0.0) is 1.0 and exp(-inf) is 0.0
Decayed(base, lam, rate, dt) ==
    IF IsNaN(lam) \/ Times(rate, dt) = NaNExponent THEN NaN
    ELSE LET x == Times(rate, dt)
             excess == SubI(lam, base)
         IN  IF x = 0 THEN AddI(base, excess)
             ELSE IF x = InfExponent THEN AddI(base, Whole(0))
             ELSE AddI(base, Scaled(excess, ExpNeg(x)))

\* cur_lambda + alpha, last_lambda += alpha
Raised(lam, jump) == AddI(lam, jump)

----------------------------------------------------------------------------
(* Random draws and arguments *)

\* the whole numbers k of time units for which some u of rng.gen::<f64>()
\* (a multiple of 2^-53 in [0,1)) has -1.0/rate*u.ln() = k in f64: e.g.
\* u = 0.36787944117144233 gives 1.0 at rate 1.0, and no u gives 2.0 at
\* rate 2.0 (u = 0.01831563888873411 gives 2.0000000000000018 and the next
\* one, u = 0.01831563888873422, gives 1.999999999999999)
WholeWaits(rate) ==
    CASE rate = Intensity(500, 2) -> { 1, 3, 4 }
      [] rate = Intensity(500, 3) -> { 1, 2, 3 }
      [] rate = Intensity(1000, 0) -> { 1, 2, 3 }
      [] rate = Intensity(1000, 4) -> { 2 }
      [] rate = Intensity(1500, 6) -> { 1 }
      [] rate = Intensity(2000, 0) -> { 1 }
      [] rate = Intensity(2000, 8) -> { 1 }
      [] rate = Intensity(2500, 8) -> { 1 }
      [] rate = Intensity(3000, 0) -> { 1 }
      [] rate = Intensity(3500, 8) -> { 1 }
      [] OTHER -> {}

\* values of -1.0/rate*u.ln() for u in [0,1): +inf for u = 0.0, and for
\* every u when rate = 0.0; the whole waits of the rate up to MaxWait
Waits(rate) ==
    { At(k) : k \in WholeWaits(rate) \cap 1..MaxWait } \cup { Infinity }

\* values of -1.0/rate*u.ln() drawn at the time now: LeastWait is among them
\* where it is at most 2^-53 (rate >= 1.0) and added to a time from 1.0 on
WaitsAt(rate, now) ==
    IF rate.exact /\ IsFinite(now) /\ now.units >= 1 /\ AtLeast(rate, 1)
    THEN Waits(rate) \cup { LeastWait } ELSE Waits(rate)

\* the horizons of the Hawkes calls, in whole time units
Horizons == 0..MaxTime

Fractions == 0..(UDen - 1)
Intensities == { Whole(k) : k \in 0..MaxLambda }

\* 0.5 + 2^-52 = 0.5000000000000002
AboveHalf == Intensity(500, 2)

\* 0.5 + 3 * 2^-53 = 0.5000000000000003
FurtherAboveHalf == Intensity(500, 3)

JumpSizes == { Whole(0), Whole(1) }

RECURSIVE SeqsUpTo(_, _)
SeqsUpTo(S, n) ==
    IF n = 0 THEN { << >> }
    ELSE LET shorter == SeqsUpTo(S, n - 1)
         IN  shorter \cup { Append(q, x) : q \in { r \in shorter : Len(r) = n - 1 }, x \in S }

----------------------------------------------------------------------------
(* Events *)

\* Event::new(timestamp, intensity)
NewEvent(timestamp, intensity) ==
    [ timestamp |-> timestamp, intensity |-> intensity ]

\* Event::new(t, l).jump(mark), and the rows array![[s, cur_lambda, alpha]]
MarkedEvent(timestamp, intensity, mark) ==
    [ timestamp |-> timestamp, intensity |-> intensity, mark |-> mark ]

\* outcome of a parallel task: Some(event) is kept, None is dropped; event
\* holds the task's candidate in both cases
Pending == [ done |-> FALSE, keep |-> FALSE, event |-> NewEvent(0, 0) ]
Kept(e) == [ done |-> TRUE, keep |-> TRUE, event |-> e ]
Dropped(e) == [ done |-> TRUE, keep |-> FALSE, event |-> e ]

\* collect(): the kept outcomes of tasks 1..n, in task order
RECURSIVE Collect(_, _)
Collect(sl, n) ==
    IF n = 0 THEN << >>
    ELSE IF sl[n].keep THEN Append(Collect(sl, n - 1), sl[n].event)
         ELSE Collect(sl, n - 1)

\* result.push(row) of the thinned simulator, as result records it: the loop
\* never reads the Vec, and result keeps its first MaxRows rows
Push(rows, row) == IF Len(rows) < MaxRows THEN Append(rows, row) ELSE rows

----------------------------------------------------------------------------
(* Initial states: one call, with its arguments *)

RateFns == { "zero", "const", "ramp" }

\* the caller's rate function at a timestamp (both multiplied by UDen)
RateFn(f, ts) ==
    CASE f = "zero" -> 0
      [] f = "const" -> UDen
      [] f = "ramp" -> ts

Locals ==
    /\ pc = "start"
    /\ num_events = 0
    /\ slots = << >>
    /\ result = << >>
    /\ s = At(0) /\ cur_lambda = Whole(0) /\ lbda_max = Whole(0)
    /\ t = At(0) /\ last_lambda = Whole(0)
    /\ taken = 0
    /\ draws = 0
    /\ error = "none"

InitPoisson ==
    /\ call = "poisson"
    /\ impl \in { "timedependent", "temporal" }
    /\ tmax \in 0..MaxTime
    /\ lambda \in -1..(MaxLambda + 1)
    /\ rate_fn = "zero" /\ max_lambda = 0
    /\ decay = 0 /\ beta = 0 /\ lambda0 = Whole(0) /\ alpha = Whole(0)
    /\ jumps = << >>

InitVariable ==
    /\ call = "variable"
    /\ impl \in { "timedependent", "temporal" }
    /\ tmax \in 0..MaxTime
    /\ rate_fn \in RateFns
    /\ max_lambda \in 0..MaxLambda
    /\ lambda = 0
    /\ decay = 0 /\ beta = 0 /\ lambda0 = Whole(0) /\ alpha = Whole(0)
    /\ jumps = << >>

InitThinned ==
    /\ call = "thinned"
    /\ impl = "temporal"
    /\ tmax \in Horizons
    /\ decay \in 0..MaxDecay
    /\ lambda0 \in Intensities \cup { FurtherAboveHalf }
    /\ alpha \in Intensities \cup { AboveHalf }
    /\ lambda = 0 /\ rate_fn = "zero" /\ max_lambda = 0
    /\ beta = 0 /\ jumps = << >>

InitExact ==
    /\ call = "exact"
    /\ impl = "timedependent"
    /\ tmax \in Horizons
    /\ beta \in 0..MaxDecay
    /\ lambda0 \in Intensities
    /\ jumps \in SeqsUpTo(JumpSizes, MaxJumps)
    /\ lambda = 0 /\ rate_fn = "zero" /\ max_lambda = 0
    /\ decay = 0 /\ alpha = Whole(0)

Init ==
    /\ InitPoisson \/ InitVariable \/ InitThinned \/ InitExact
    /\ Locals

----------------------------------------------------------------------------
(* poisson_process *)

\* Poisson::new(mean) without its check of the mean
PoissonNewUnchecked(mean) == TRUE

\* Poisson::new(mean) succeeds: rand asserts lambda > 0, rand_distr
\* returns Err (unwrapped by the caller) unless lambda > 0
PoissonNewOk(mean) == mean > 0

Fail(msg) ==
    /\ pc' = "failed"
    /\ error' = msg
    /\ UNCHANGED << num_events, slots, result, s, cur_lambda, lbda_max, t,
                    last_lambda, taken, draws >>

\* entry of poisson_process up to the sampled number of events
PoissonCall ==
    /\ pc = "start" /\ call = "poisson"
    /\ UNCHANGED args
    /\ IF impl = "timedependent" /\ ~(lambda >= 0)
       THEN Fail("assertion failed: lambda >= 0.0")
       ELSE IF ~PoissonNewOk(tmax * lambda)
       THEN Fail("Poisson::new")
       ELSE \E n \in 0..MaxCount :
              /\ num_events' = n
              /\ slots' = [ i \in 1..n |-> Pending ]
              /\ draws' = draws + 1
              /\ pc' = "tasks"
              /\ UNCHANGED << result, s, cur_lambda, lbda_max, t, last_lambda,
                              taken, error >>

\* Uniform::new(0.0, tmax).sample(rng), multiplied by UDen
UniformSample(high, k) == high * k

\* one parallel task of poisson_process
PoissonTask(i) ==
    /\ pc = "tasks" /\ call = "poisson"
    /\ ~slots[i].done
    /\ \E k \in Fractions :
         LET timestamp == UniformSample(tmax, k)
         IN  slots' = [ slots EXCEPT ![i] =
                          Kept(IF impl = "timedependent"
                               THEN NewEvent(timestamp, lambda * UDen)
                               ELSE [ timestamp |-> timestamp ]) ]
    /\ draws' = draws + 1
    /\ UNCHANGED args
    /\ UNCHANGED << pc, num_events, result, s, cur_lambda, lbda_max, t,
                    last_lambda, taken, error >>

\* all tasks joined: the collected sequence is returned
TasksReturn ==
    /\ pc = "tasks"
    /\ \A i \in 1..num_events : slots[i].done
    /\ result' = Collect(slots, num_events)
    /\ pc' = "done"
    /\ UNCHANGED args
    /\ UNCHANGED << num_events, slots, s, cur_lambda, lbda_max, t, last_lambda,
                    taken, draws, error >>

----------------------------------------------------------------------------
(* variable_poisson *)

\* entry of variable_poisson up to the sampled number of candidates
VariableCall ==
    /\ pc = "start" /\ call = "variable"
    /\ UNCHANGED args
    /\ IF ~PoissonNewOk(tmax * max_lambda)
       THEN Fail("Poisson::new")
       ELSE \E n \in 0..MaxCount :
              /\ num_events' = n
              /\ slots' = [ i \in 1..n |-> Pending ]
              /\ draws' = draws + 1
              /\ pc' = "tasks"
              /\ UNCHANGED << result, s, cur_lambda, lbda_max, t, last_lambda,
                              taken, error >>

\* the thinning test with the comparison turned into <=
UnderCurveOrOn(lambda_val, f, timestamp) == lambda_val <= RateFn(f, timestamp)

\* lambda_val < lambda(timestamp)
UnderCurve(lambda_val, f, timestamp) == lambda_val < RateFn(f, timestamp)

\* one parallel task of variable_poisson: a candidate, kept or dropped
VariableTask(i) ==
    /\ pc = "tasks" /\ call = "variable"
    /\ ~slots[i].done
    /\ \E k1 \in Fractions, k2 \in Fractions :
         LET timestamp == tmax * k1
             lambda_val == max_lambda * k2
         IN  slots' = [ slots EXCEPT ![i] =
                          IF UnderCurve(lambda_val, rate_fn, timestamp)
                          THEN Kept(NewEvent(timestamp, lambda_val))
                          ELSE Dropped(NewEvent(timestamp, lambda_val)) ]
    /\ draws' = draws + 2
    /\ UNCHANGED args
    /\ UNCHANGED << pc, num_events, result, s, cur_lambda, lbda_max, t,
                    last_lambda, taken, error >>

----------------------------------------------------------------------------
(* hawkes_exponential(tmax, decay, lambda0, alpha), temporal.rs *)

\* s += ds, t += ...
Advance(now, dt) == Plus(now, dt)

\* s > tmax: the time window is over
WindowOver(now, horizon) == Lt(At(horizon), now)

\* d < cur_lambda/lbda_max, d = k/UDen, as k*lbda_max < UDen*cur_lambda
\* (0/0 and NaN/lbda_max are NaN: the comparison is false)
Accept(k, cur, max) ==
    /\ ~IsNaN(cur)
    /\ \/ k * max.milli < UDen * cur.milli
       \/ k * max.milli = UDen * cur.milli /\ k * max.ulps < UDen * cur.ulps

\* the first event and the initial intensity and bound
ThinStart ==
    /\ pc = "start" /\ call = "thinned"
    /\ s' \in Waits(lambda0)
    /\ cur_lambda' = Raised(lambda0, alpha)
    /\ result' = Push(<< >>, MarkedEvent(s', cur_lambda', alpha))
    /\ lbda_max' = cur_lambda'
    /\ pc' = "loop"
    /\ UNCHANGED args
    /\ UNCHANGED << num_events, slots, t, last_lambda, taken, draws, error >>

\* first half of a loop step: candidate time, decay, advance, break test;
\* LeastWait is drawn where exp(-decay*ds) is 1.0 (lbda_max >= 2*decay)
ThinAdvance ==
    /\ pc = "loop" /\ call = "thinned"
    /\ Lt(s, At(tmax))
    /\ \E ds \in WaitsAt(lbda_max, s) :
         /\ ds = LeastWait =>
              /\ AtLeast(lbda_max, 2 * decay)
              /\ LeI(Raised(lbda_max, alpha), Whole(MaxLevel))
         /\ cur_lambda' = Decayed(lambda0, cur_lambda, decay, ds)
         /\ s' = Advance(s, ds)
    /\ pc' = IF WindowOver(s', tmax) THEN "break" ELSE "test"
    /\ UNCHANGED args
    /\ UNCHANGED << num_events, slots, result, lbda_max, t, last_lambda,
                    taken, draws, error >>

\* second half of a loop step: rejection sampling and the new upper bound
ThinTest ==
    /\ pc = "test" /\ call = "thinned"
    /\ \E k \in Fractions :
         IF Accept(k, cur_lambda, lbda_max)
         THEN /\ cur_lambda' = Raised(cur_lambda, alpha)
              /\ result' = Push(result, MarkedEvent(s, cur_lambda', alpha))
         ELSE UNCHANGED << cur_lambda, result >>
    /\ lbda_max' = cur_lambda'
    /\ pc' = "loop"
    /\ UNCHANGED args
    /\ UNCHANGED << num_events, slots, s, t, last_lambda, taken, draws,
                    error >>

\* the loop is left, by its condition or by break: the rows are returned
ThinReturn ==
    /\ call = "thinned"
    /\ \/ pc = "loop" /\ ~Lt(s, At(tmax))
       \/ pc = "break"
    /\ pc' = "done"
    /\ UNCHANGED args
    /\ UNCHANGED << num_events, slots, result, s, cur_lambda, lbda_max, t,
                    last_lambda, taken, draws, error >>

----------------------------------------------------------------------------
(* hawkes_exponential(tmax, beta, lambda0, jumps), timedependent.rs *)

\* d < 0.0, with d = 1 + beta*ln(u1)/(last_lambda - lambda0) when
\* last_lambda > lambda0 and -inf otherwise; ln(u1) = -beta*s1 (beta = 0
\* gives d = 1 or NaN, u1 = 0 with beta > 0 gives -inf, s1 = LeastWait
\* gives d >= 0)
DNegative(rate, s1, last, base) ==
    IF LtI(base, last)
    THEN IF IsFinite(s1)
         THEN 1000 * rate * rate * s1.units > SubI(last, base).milli
         ELSE rate > 0
    ELSE TRUE

\* jumps.next() yielding the first element again
FirstJump(js, n) == js[1]

\* the element jumps.next() yields after n elements were taken
NextJump(js, n) == js[n + 1]

\* the locals before the loop
ExactStart ==
    /\ pc = "start" /\ call = "exact"
    /\ t' = At(0)
    /\ last_lambda' = lambda0
    /\ result' = << >>
    /\ pc' = "loop"
    /\ UNCHANGED args
    /\ UNCHANGED << num_events, slots, s, cur_lambda, lbda_max, taken, draws,
                    error >>

\* one loop step: the inter-arrival, the decay, and the event or the panic
ExactStep ==
    /\ pc = "loop" /\ call = "exact"
    /\ Lt(t, At(tmax))
    /\ \E s1 \in WaitsAt(Whole(beta), t), s2 \in WaitsAt(lambda0, t) :
         LET dt == IF DNegative(beta, s1, last_lambda, lambda0)
                   THEN s2 ELSE Min(s1, s2)
             decayed == Decayed(lambda0, last_lambda, beta,
                                Minus(Advance(t, dt), t))
         IN  /\ t' = Advance(t, dt)
             /\ IF taken < Len(jumps)
                THEN /\ result' = Append(result,
                            MarkedEvent(t', decayed, NextJump(jumps, taken)))
                     /\ last_lambda' = Raised(decayed, NextJump(jumps, taken))
                     /\ taken' = taken + 1
                     /\ UNCHANGED << pc, error >>
                ELSE /\ last_lambda' = decayed
                     /\ pc' = "failed"
                     /\ error' = "Hawkes process ran out of jumps!"
                     /\ UNCHANGED << result, taken >>
    /\ UNCHANGED args
    /\ UNCHANGED << num_events, slots, s, cur_lambda, lbda_max, draws >>

\* the loop condition fails: the result is returned
ExactReturn ==
    /\ pc = "loop" /\ call = "exact"
    /\ ~Lt(t, At(tmax))
    /\ pc' = "done"
    /\ UNCHANGED args
    /\ UNCHANGED << num_events, slots, result, s, cur_lambda, lbda_max, t,
                    last_lambda, taken, draws, error >>

----------------------------------------------------------------------------

Next ==
    \/ PoissonCall
    \/ \E i \in 1..num_events : PoissonTask(i)
    \/ VariableCall
    \/ \E i \in 1..num_events : VariableTask(i)
    \/ TasksReturn
    \/ ThinStart
    \/ ThinAdvance
    \/ ThinTest
    \/ ThinReturn
    \/ ExactStart
    \/ ExactStep
    \/ ExactReturn

Spec == Init /\ [][Next]_vars

\* the called function keeps running until it returns or panics
FairSpec == Spec /\ WF_vars(Next)

----------------------------------------------------------------------------
(* Properties *)

Timestamps(call_) ==
    IF call = call_ THEN { result[i].timestamp : i \in 1..Len(result) } ELSE {}

InWindow(ts) == IsFinite(ts) /\ ~Lt(ts, At(0)) /\ ~Lt(At(tmax), ts)

\* C1: every event the exact Hawkes simulator has recorded has its timestamp
\* in [0, tmax]; a step that advances t beyond tmax records nothing.
ExactEventsInWindow ==
    \A ts \in Timestamps("exact") : InWindow(ts)

\* C2: every event of the thinned Hawkes simulator, the initial one included,
\* has its timestamp in [0, tmax].
ThinnedEventsInWindow ==
    \A ts \in Timestamps("thinned") : InWindow(ts)

\* C3: the exact Hawkes simulator panics for want of a jump only in a step
\* that advanced t to a value not exceeding tmax; it never panics in the step
\* that overshoots tmax.
ExactPanicsOnlyInWindow ==
    (call = "exact" /\ pc = "failed") => InWindow(t)

\* C4: poisson_process called with lambda = 0 or with tmax = 0 (and
\* lambda >= 0) does not fail, and returns the empty sequence.
PoissonZeroMeanReturnsEmpty ==
    (call = "poisson" /\ lambda >= 0 /\ (lambda = 0 \/ tmax = 0))
        => (pc # "failed" /\ result = << >>)

\* C5: poisson_process called with lambda < 0 and tmax > 0 fails on an
\* invalid parameter before any random draw, with no event produced.
PoissonNegativeRateFailsFast ==
    (call = "poisson" /\ lambda < 0 /\ tmax > 0 /\ pc # "start")
        => /\ pc = "failed"
           /\ error \in { "assertion failed: lambda >= 0.0", "Poisson::new" }
           /\ draws = 0
           /\ num_events = 0
           /\ result = << >>

PoissonNegativeRateFailed ==
    /\ call = "poisson" /\ impl = "temporal"
    /\ lambda < 0 /\ tmax > 0
    /\ pc = "failed"

\* C6: variable_poisson keeps a candidate (t, u), t in [0, tmax] and u in
\* [0, max_lambda], exactly when u < rate_fn(t); the returned events are the
\* kept candidates, so there are at most num_events of them, none when
\* rate_fn is zero everywhere, and each has intensity < rate_fn(timestamp).
ThinningKeepsUnderCurve ==
    call = "variable" =>
        /\ \A i \in 1..num_events :
             slots[i].done =>
                 /\ 0 <= slots[i].event.timestamp
                 /\ slots[i].event.timestamp <= tmax * UDen
                 /\ 0 <= slots[i].event.intensity
                 /\ slots[i].event.intensity <= max_lambda * UDen
                 /\ slots[i].keep <=>
                      (slots[i].event.intensity
                          < RateFn(rate_fn, slots[i].event.timestamp))
        /\ pc = "done" =>
             /\ Len(result) = Cardinality({ i \in 1..num_events : slots[i].keep })
             /\ Len(result) <= num_events
             /\ rate_fn = "zero" => result = << >>
             /\ \A k \in 1..Len(result) :
                  /\ \E i \in 1..num_events :
                       slots[i].keep /\ slots[i].event = result[k]
                  /\ result[k].intensity < RateFn(rate_fn, result[k].timestamp)

ThinningKeptOneOfTwo ==
    /\ call = "variable" /\ pc = "done"
    /\ num_events = 2
    /\ Len(result) = 1

\* C7: in the exact Hawkes simulator the number of values taken from jumps
\* equals the number of events recorded, and the k-th event carries the k-th
\* value of jumps as its mark; so it is on a normal return.
ExactMarksFollowJumps ==
    call = "exact" =>
        /\ taken = Len(result)
        /\ taken <= Len(jumps)
        /\ \A k \in 1..Len(result) : result[k].mark = jumps[k]

ExactReturnedTwoMarks ==
    /\ call = "exact" /\ pc = "done"
    /\ Len(result) >= 2
    /\ jumps[1] # jumps[2]

Stopped ==
    /\ call = "thinned"
    /\ \/ Lt(At(tmax), s)
       \/ pc = "loop" /\ ~Lt(s, At(tmax))

\* C8: a run of the thinned Hawkes simulator, every drawn inter-arrival of
\* which is at least the least positive wait, returns; and once s exceeds
\* tmax (or the loop condition s < tmax has failed) the call returns with no
\* further draw, acceptance test, intensity jump or event.
ThinnedTerminates ==
    /\ (call = "thinned") ~> (pc = "done")
    /\ [][ Stopped => /\ pc' = "done"
                      /\ UNCHANGED << result, s, cur_lambda, lbda_max >> ]_vars

\* C9: in both Hawkes simulators each recorded event has a timestamp
\* strictly greater than that of the event recorded before it (every drawn
\* inter-arrival is strictly positive).
HawkesTimestampsIncrease ==
    call \in { "thinned", "exact" } =>
        \A i \in 1..(Len(result) - 1) :
            Lt(result[i].timestamp, result[i + 1].timestamp)

\* C10: in the thinned Hawkes simulator, at every rejection test
\* lambda0 <= cur_lambda <= lbda_max; after every tested step lbda_max equals
\* cur_lambda; and the test raises cur_lambda by alpha exactly when it
\* records an event, leaving it unchanged otherwise.
ThinnedBoundDominates ==
    /\ [](call = "thinned" =>
            /\ pc = "test" => (LeI(lambda0, cur_lambda) /\ LeI(cur_lambda, lbda_max))
            /\ pc = "loop" => lbda_max = cur_lambda)
    /\ [][ (call = "thinned" /\ pc = "test" /\ pc' = "loop") =>
             \/ /\ cur_lambda' = Raised(cur_lambda, alpha)
                /\ result' = Push(result, MarkedEvent(s, cur_lambda', alpha))
             \/ /\ cur_lambda' = cur_lambda
                /\ result' = result ]_vars

====
